---- MODULE Spec2Model ----
(***************************************************************************)
(* The human-in-the-loop mediation bridge of cui: the QuestionTracker      *)
(* store, the question routes (gateway), and the MCP server's two polling  *)
(* tool handlers (handleApprovalPrompt, handleAskUserQuestion).            *)
(***************************************************************************)
EXTENDS Integers, Sequences, FiniteSets, TLC

\* ------------------------------------------------------------------ bounds
\* ids ever handed out by uuidv4()
MaxRequests == 2
\* direct calls of QuestionTracker methods in StoreSpec
MaxStoreOps == 4
\* advances of the wall clock
MaxTicks == 3
\* labels one multi-select answer of the QuestionDialog may hold
MaxSelected == 3
\* conversations the server holds
MaxConversations == 2
\* summaries one page of a load-more fetch may hold; stands for LOAD_MORE_LIMIT
MaxPage == 2

\* --------------------------------------------------------------- constants
POLL_INTERVAL == 1000
TIMEOUT == 60 * 60 * 1000

\* JavaScript's undefined, as a value of a string-typed slot
Undefined == "<undefined>"
\* `x` in a boolean context, for string | undefined
Truthy(s) == s /= Undefined /\ s /= ""
\* `x || 'unknown'`
OrUnknown(s) == IF Truthy(s) THEN s ELSE "unknown"
\* `${x}` inside a template literal
TemplateString(s) == IF s = Undefined THEN "undefined" ELSE s

\* ------------------------------------------------------------ value domains
Item == [header |-> "Framework", options |-> <<"React", "Vue">>, multiSelect |-> FALSE]
ItemNoOptions == [header |-> "Empty", options |-> <<>>, multiSelect |-> FALSE]

\* req.body.questions as the notify route sees it: absent, a string, or an array
QuestionsBody(tag, items) == [tag |-> tag, items |-> items]
QuestionArrays == {<<>>, <<Item>>, <<ItemNoOptions>>}
QuestionBodies ==
    {QuestionsBody("undefined", <<>>), QuestionsBody("string", <<>>)}
        \cup {QuestionsBody("array", a) : a \in QuestionArrays}

\* req.body.answers as the answer route sees it; an object is a list of
\* <<header, text>> pairs
AnswersBody(tag, val) == [tag |-> tag, val |-> val]
UndefinedAnswers == AnswersBody("undefined", <<>>)
AnswerObjects == {<< <<"Framework", "React">> >>, << <<"Framework", "Vue">> >>}
ArrayAnswers == AnswersBody("array", <<"React">>)
AnswerBodies ==
    {UndefinedAnswers, AnswersBody("string", <<>>), ArrayAnswers}
        \cup {AnswersBody("object", o) : o \in AnswerObjects}

\* `typeof x === 'object'` for a body that is not null: true of arrays too
TypeofObject(body) == body.tag \in {"object", "array"}

StreamingIds == {"run-1", "run-2"}
Waiters == {1, 2}

VARIABLES
    questionRequests,   \* QuestionTracker.questionRequests, in insertion order
    emitted,            \* events emitted by the QuestionTracker, oldest first
    nextUuid,           \* the next id uuidv4() hands out
    last,               \* the latest direct QuestionTracker call and what it returned
    storeOps,           \* number of direct QuestionTracker calls made
    permissionRequests, \* the permission tracker's records, in insertion order
    lastResponse,       \* the latest response of POST /:requestId/answer
    accepted,           \* the submissions POST /:requestId/answer answered with 200
    now,                \* Date.now()
    ticks,              \* number of clock advances so far
    env,                \* process.env.CUI_STREAMING_ID of the MCP server process
    waiter,             \* each tool call of the MCP server: position and locals
    dialog,             \* QuestionDialog: the answers state and what onSubmit received
    client              \* ConversationsProvider: its React state and the stream statuses

vars == <<questionRequests, emitted, nextUuid, last, storeOps, permissionRequests,
          lastResponse, accepted, now, ticks, env, waiter, dialog, client>>

storeVars == <<questionRequests, emitted, nextUuid>>
webVars == <<dialog, client>>
systemVars == <<permissionRequests, lastResponse, accepted, now, ticks, env, webVars, waiter>>

\* ---------------------------------------------------------- QuestionTracker
FindAny(reqs, id) == reqs

Find(reqs, id) == SelectSeq(reqs, LAMBDA r : r.id = id)

addQuestionRequestUnknown(reqs, id, questions, streamingId, ts) ==
    Append(reqs, [id |-> id,
                  streamingId |-> "unknown",
                  questions |-> questions,
                  timestamp |-> ts,
                  status |-> "pending",
                  answers |-> UndefinedAnswers])

addQuestionRequestSameId(reqs, id, questions, streamingId, ts) ==
    Append(reqs, [id |-> 1,
                  streamingId |-> OrUnknown(streamingId),
                  questions |-> questions,
                  timestamp |-> ts,
                  status |-> "pending",
                  answers |-> UndefinedAnswers])

addQuestionRequest(reqs, id, questions, streamingId, ts) ==
    Append(reqs, [id |-> id,
                  streamingId |-> OrUnknown(streamingId),
                  questions |-> questions,
                  timestamp |-> ts,
                  status |-> "pending",
                  answers |-> UndefinedAnswers])

getAllQuestionRequests(reqs) == reqs

getQuestionRequestsNoStatus(reqs, streamingId, status) ==
    IF Truthy(streamingId)
    THEN SelectSeq(reqs, LAMBDA r : r.streamingId = streamingId)
    ELSE reqs

getQuestionRequestsEither(reqs, streamingId, status) ==
    IF Truthy(streamingId) /\ Truthy(status)
    THEN SelectSeq(reqs, LAMBDA r : r.streamingId = streamingId \/ r.status = status)
    ELSE getQuestionRequestsNoStatus(reqs,
             IF Truthy(streamingId) THEN streamingId ELSE Undefined, Undefined)

getQuestionRequests(reqs, streamingId, status) ==
    LET byStream == IF Truthy(streamingId)
                    THEN SelectSeq(reqs, LAMBDA r : r.streamingId = streamingId)
                    ELSE reqs
    IN IF Truthy(status)
       THEN SelectSeq(byStream, LAMBDA r : r.status = status)
       ELSE byStream

getQuestionRequest(reqs, id) == Find(reqs, id)

updateQuestionAnswerToggle(reqs, id, answers) ==
    [i \in DOMAIN reqs |->
        IF reqs[i].id = id
        THEN [reqs[i] EXCEPT !.status = IF @ = "answered" THEN "pending" ELSE "answered",
                             !.answers = answers]
        ELSE reqs[i]]

updateQuestionAnswerUpsert(reqs, id, answers) ==
    IF Find(reqs, id) = <<>>
    THEN Append(reqs, [id |-> id, streamingId |-> "unknown", questions |-> <<>>,
                       timestamp |-> 0, status |-> "answered", answers |-> answers])
    ELSE [i \in DOMAIN reqs |->
             IF reqs[i].id = id
             THEN [reqs[i] EXCEPT !.status = "answered", !.answers = answers]
             ELSE reqs[i]]

updateQuestionAnswerConsume(reqs, id, answers) ==
    SelectSeq(reqs, LAMBDA r : r.id /= id)

updateQuestionAnswerOfRun(reqs, id, answers) ==
    [i \in DOMAIN reqs |->
        IF \E k \in DOMAIN reqs : reqs[k].id = id /\ reqs[k].streamingId = reqs[i].streamingId
        THEN [reqs[i] EXCEPT !.status = "answered", !.answers = answers]
        ELSE reqs[i]]

updateQuestionAnswerReinsert(reqs, id, answers) ==
    SelectSeq(reqs, LAMBDA r : r.id /= id)
        \o [i \in 1..Len(Find(reqs, id)) |->
               [Find(reqs, id)[i] EXCEPT !.status = "answered", !.answers = answers]]

\* the value updateQuestionAnswer returns
updateQuestionAnswerReturn(reqs, id) == Find(reqs, id) /= <<>>

\* the map after updateQuestionAnswer
updateQuestionAnswer(reqs, id, answers) ==
    [i \in DOMAIN reqs |->
        IF reqs[i].id = id
        THEN [reqs[i] EXCEPT !.status = "answered", !.answers = answers]
        ELSE reqs[i]]

removeQuestionsByStreamingIdPending(reqs, streamingId) ==
    SelectSeq(reqs, LAMBDA r : r.streamingId /= streamingId \/ r.status /= "pending")

removeQuestionsByStreamingId(reqs, streamingId) ==
    SelectSeq(reqs, LAMBDA r : r.streamingId /= streamingId)

removeQuestionsByStreamingIdReturn(reqs, streamingId) ==
    Len(SelectSeq(reqs, LAMBDA r : r.streamingId = streamingId))

Event(type, request) == [type |-> type, request |-> request]

\* what emit() appends for a call of addQuestionRequest
EmitRequest(ev, reqs, id) == ev \o [i \in 1..Len(Find(reqs, id)) |-> Event("question_request", Find(reqs, id)[i])]

EmitAnsweredBeforeWrite(ev, reqs, id) ==
    ev \o [i \in 1..Len(Find(reqs, id)) |->
             Event("question_answered",
                   [Find(reqs, id)[i] EXCEPT !.status = "pending", !.answers = UndefinedAnswers])]

\* what emit() appends for a call of updateQuestionAnswer
EmitAnswered(ev, reqs, id) == ev \o [i \in 1..Len(Find(reqs, id)) |-> Event("question_answered", Find(reqs, id)[i])]

\* ------------------------------------------------- direct QuestionTracker calls
NoCall == [op |-> "none", id |-> 0, streamingId |-> Undefined, ok |-> FALSE, n |-> 0]
Called(op, id, streamingId, ok, n) ==
    [op |-> op, id |-> id, streamingId |-> streamingId, ok |-> ok, n |-> n]

TrackerAdd(questions, streamingId) ==
    /\ storeOps < MaxStoreOps
    /\ nextUuid <= MaxRequests
    /\ questionRequests' = addQuestionRequest(questionRequests, nextUuid, questions, streamingId, now)
    /\ emitted' = EmitRequest(emitted, questionRequests', nextUuid)
    /\ nextUuid' = nextUuid + 1
    /\ last' = Called("addQuestionRequest", nextUuid, streamingId, TRUE, 0)
    /\ storeOps' = storeOps + 1
    /\ UNCHANGED systemVars

TrackerUpdate(id, answers) ==
    /\ storeOps < MaxStoreOps
    /\ questionRequests' = updateQuestionAnswer(questionRequests, id, answers)
    /\ emitted' = EmitAnswered(emitted, questionRequests', id)
    /\ last' = Called("updateQuestionAnswer", id, Undefined,
                      updateQuestionAnswerReturn(questionRequests, id), 0)
    /\ storeOps' = storeOps + 1
    /\ UNCHANGED <<nextUuid, systemVars>>

TrackerList(streamingId, status) ==
    /\ storeOps < MaxStoreOps
    /\ last' = Called("getQuestionRequests", 0, streamingId, TRUE,
                      Len(getQuestionRequests(questionRequests, streamingId, status)))
    /\ storeOps' = storeOps + 1
    /\ UNCHANGED <<storeVars, systemVars>>

TrackerGet(id) ==
    /\ storeOps < MaxStoreOps
    /\ last' = Called("getQuestionRequest", id, Undefined,
                      getQuestionRequest(questionRequests, id) /= <<>>, 0)
    /\ storeOps' = storeOps + 1
    /\ UNCHANGED <<storeVars, systemVars>>

TrackerRemove(streamingId) ==
    /\ storeOps < MaxStoreOps
    /\ questionRequests' = removeQuestionsByStreamingId(questionRequests, streamingId)
    /\ last' = Called("removeQuestionsByStreamingId", 0, streamingId, TRUE,
                      removeQuestionsByStreamingIdReturn(questionRequests, streamingId))
    /\ storeOps' = storeOps + 1
    /\ UNCHANGED <<emitted, nextUuid, systemVars>>

TrackerClear ==
    /\ storeOps < MaxStoreOps
    /\ questionRequests' = <<>>
    /\ last' = Called("clear", 0, Undefined, TRUE, 0)
    /\ storeOps' = storeOps + 1
    /\ UNCHANGED <<emitted, nextUuid, systemVars>>

\* ------------------------------------------- question routes (the gateway)
\* status of POST /notify for a body
NotifyStatus(body) ==
    IF body.tag = "undefined" \/ body.tag /= "array" \/ Len(body.items) = 0
    THEN 400 ELSE 200

AnswerLookupAnyStatus(reqs) == getQuestionRequests(reqs, Undefined, Undefined)

\* the list POST /:requestId/answer looks the request up in
AnswerLookup(reqs) == getQuestionRequests(reqs, Undefined, "pending")

\* status of POST /:requestId/answer for a request id and a body
AnswerStatus(reqs, id, answers) ==
    IF answers.tag = "undefined" \/ ~TypeofObject(answers) THEN 400
    ELSE IF Find(AnswerLookup(reqs), id) = <<>> THEN 404
    ELSE IF ~updateQuestionAnswerReturn(reqs, id) THEN 500
    ELSE 200

\* ------------------------------------- permission tracker and its routes
addPermissionRequest(perms, id, toolName, toolInput, streamingId) ==
    Append(perms, [id |-> id,
                   streamingId |-> OrUnknown(streamingId),
                   toolName |-> toolName,
                   toolInput |-> toolInput,
                   status |-> "pending",
                   modifiedInput |-> Undefined,
                   denyReason |-> Undefined])

getPermissionRequests(perms, streamingId, status) ==
    LET byStream == IF Truthy(streamingId)
                    THEN SelectSeq(perms, LAMBDA r : r.streamingId = streamingId)
                    ELSE perms
    IN IF Truthy(status)
       THEN SelectSeq(byStream, LAMBDA r : r.status = status)
       ELSE byStream

PermissionNotifyStatus(toolName) == IF Truthy(toolName) THEN 200 ELSE 400

PermissionDecisions ==
    {[status |-> "approved", modifiedInput |-> Undefined, denyReason |-> Undefined],
     [status |-> "approved", modifiedInput |-> "input-1", denyReason |-> Undefined],
         [status |-> "denied", modifiedInput |-> Undefined, denyReason |-> "no"]}

decidePermission(perms, id, d) ==
    [i \in DOMAIN perms |->
        IF perms[i].id = id /\ perms[i].status = "pending"
        THEN [perms[i] EXCEPT !.status = d.status,
                              !.modifiedInput = d.modifiedInput,
                              !.denyReason = d.denyReason]
        ELSE perms[i]]

removePermissionsByStreamingId(perms, streamingId) ==
    SelectSeq(perms, LAMBDA r : r.streamingId /= streamingId)

\* ------------------------------------------------------ the MCP tool calls
NoResult == [behavior |-> "none", via |-> "none", answers |-> UndefinedAnswers,
             updatedInput |-> Undefined, message |-> Undefined]

IdleWaiter ==
    [pc |-> "idle", tool |-> "none", toolName |-> Undefined, input |-> Undefined,
     questions |-> QuestionsBody("undefined", <<>>), notifyStatus |-> 0,
     requestId |-> 0, startTime |-> 0, sleepFrom |-> 0, iter |-> 0,
     result |-> NoResult,
     \* history, not read by the handlers
     queries |-> 0, failed |-> "none", read |-> <<>>, readIter |-> 0,
     pendingIter |-> 0, decIter |-> 0, decPc |-> "none", decInTime |-> FALSE]

InLoop(w) == waiter[w].pc \in {"check", "pollA", "pollB", "sleep"}

\* return { content: [...] } : the call is over
Return(wr, behavior, via, answers, updatedInput, message) ==
    [wr EXCEPT !.pc = "done",
               !.result = [behavior |-> behavior, via |-> via, answers |-> answers,
                           updatedInput |-> updatedInput, message |-> message]]

TimedOutSwapped(t, startTime) == startTime - t > TIMEOUT

\* `Date.now() - startTime > TIMEOUT`
TimedOut(t, startTime) == t - startTime > TIMEOUT

ResponseOkAlways(status) == TRUE

\* `response.ok`
ResponseOk(status) == status \in 200..299

StillPendingNever(list, id) == FALSE

StillPendingAlways(list, id) == TRUE

\* `permissions.find((p) => p.id === permissionRequestId)` is defined: keep waiting
StillPending(list, id) == Find(list, id) /= <<>>

AskCatchSwallow(wr, what) == [wr EXCEPT !.failed = what, !.pc = "sleep"]

\* what the catch block of handleAskUserQuestion returns
AskCatch(wr, what) ==
    Return([wr EXCEPT !.failed = what], "error", "error", UndefinedAnswers, Undefined, "Question failed")

ApprovalCatchFailOpen(wr, what) ==
    Return([wr EXCEPT !.failed = what], "allow", "error", UndefinedAnswers, wr.input, Undefined)

\* what the catch block of handleApprovalPrompt returns
ApprovalCatch(wr, what) ==
    Return([wr EXCEPT !.failed = what], "deny", "error", UndefinedAnswers, Undefined,
           "Permission denied due to error")

Net == {"ok", "fail"}

\* `answeredQuestion && answeredQuestion.status === 'answered'`
AskResolved(found) == found /= <<>> /\ found[1].status = "answered"

\* which branch of `if (processedPermission) { ... }` returns: "allow", "deny" or "none"
ApprovalResolved(found) ==
    IF found = <<>> THEN "none"
    ELSE IF found[1].status = "approved" THEN "allow"
    ELSE IF found[1].status = "denied" THEN "deny"
    ELSE "none"

\* handleAskUserQuestion up to `const startTime = Date.now()`
AskNotify(w, questions, net) ==
    /\ waiter[w].pc = "idle"
    /\ LET wr == [waiter[w] EXCEPT !.tool = "ask_user_question", !.questions = questions]
       IN \/ /\ questions.tag = "undefined"          \* questions.length throws
             /\ net = "ok"
             /\ waiter' = [waiter EXCEPT ![w] = AskCatch(wr, "arguments")]
             /\ UNCHANGED storeVars
          \/ /\ questions.tag /= "undefined"
             /\ net = "fail"
             /\ waiter' = [waiter EXCEPT ![w] = AskCatch([wr EXCEPT !.notifyStatus = 500], "notify")]
             /\ UNCHANGED storeVars
          \/ /\ questions.tag /= "undefined"
             /\ net = "ok"
             /\ NotifyStatus(questions) = 400
             /\ waiter' = [waiter EXCEPT ![w] =
                    IF ResponseOk(400)
                    THEN [wr EXCEPT !.notifyStatus = 400, !.startTime = now, !.iter = 1,
                                    !.pc = "check"]
                    ELSE AskCatch([wr EXCEPT !.notifyStatus = 400], "notify")]
             /\ UNCHANGED storeVars
          \/ /\ questions.tag /= "undefined"
             /\ net = "ok"
             /\ NotifyStatus(questions) = 200
             /\ nextUuid <= MaxRequests
             /\ questionRequests' = addQuestionRequest(questionRequests, nextUuid,
                                        questions.items, OrUnknown(env), now)
             /\ emitted' = EmitRequest(emitted, questionRequests', nextUuid)
             /\ nextUuid' = nextUuid + 1
             /\ waiter' = [waiter EXCEPT ![w] =
                    [wr EXCEPT !.notifyStatus = 200, !.requestId = nextUuid,
                               !.startTime = now, !.iter = 1, !.pc = "check"]]
    /\ UNCHANGED <<last, storeOps, permissionRequests, lastResponse, accepted, now, ticks, env, webVars>>

\* top of the while loop: the timeout check
AskCheck(w) ==
    /\ waiter[w].pc = "check" /\ waiter[w].tool = "ask_user_question"
    /\ waiter' = [waiter EXCEPT ![w] =
          IF TimedOut(now, waiter[w].startTime)
          THEN Return(waiter[w], "error", "timeout", UndefinedAnswers, Undefined,
                      "Question timed out - user did not respond")
          ELSE [waiter[w] EXCEPT !.pc = "pollA"]]
    /\ UNCHANGED <<storeVars, last, storeOps, permissionRequests, lastResponse, accepted, now, ticks, env, webVars>>

\* GET /api/questions?streamingId=${CUI_STREAMING_ID}&status=pending
AskPollPending(w, net) ==
    /\ waiter[w].pc = "pollA" /\ waiter[w].tool = "ask_user_question"
    /\ LET pendingQuestions == getQuestionRequests(questionRequests, TemplateString(env), "pending")
           wr == [waiter[w] EXCEPT !.queries = @ + 1]
           rd == [wr EXCEPT !.pendingIter =
                     IF Find(pendingQuestions, wr.requestId) /= <<>> THEN wr.iter ELSE @]
       IN waiter' = [waiter EXCEPT ![w] =
            IF net = "fail" THEN AskCatch(wr, "pollA")
            ELSE IF StillPending(pendingQuestions, wr.requestId)
                 THEN [rd EXCEPT !.pc = "sleep", !.sleepFrom = now]
                 ELSE [rd EXCEPT !.pc = "pollB"]]
    /\ UNCHANGED <<storeVars, last, storeOps, permissionRequests, lastResponse, accepted, now, ticks, env, webVars>>

\* GET /api/questions?streamingId=${CUI_STREAMING_ID}
AskPollAll(w, net) ==
    /\ waiter[w].pc = "pollB" /\ waiter[w].tool = "ask_user_question"
    /\ LET allQuestions == getQuestionRequests(questionRequests, TemplateString(env), Undefined)
           found == Find(allQuestions, waiter[w].requestId)
           wr == [waiter[w] EXCEPT !.queries = @ + 1]
           rd == [wr EXCEPT !.read = found, !.readIter = wr.iter]
       IN waiter' = [waiter EXCEPT ![w] =
            IF net = "fail" THEN AskCatch(wr, "pollB")
            ELSE IF AskResolved(found)
                 THEN Return(rd, "answers", "decision", found[1].answers, Undefined, Undefined)
                 ELSE [rd EXCEPT !.pc = "sleep", !.sleepFrom = now]]
    /\ UNCHANGED <<storeVars, last, storeOps, permissionRequests, lastResponse, accepted, now, ticks, env, webVars>>

\* await new Promise(resolve => setTimeout(resolve, POLL_INTERVAL))
AskSleep(w) ==
    /\ waiter[w].pc = "sleep" /\ waiter[w].tool = "ask_user_question"
    /\ now - waiter[w].sleepFrom >= POLL_INTERVAL
    /\ waiter' = [waiter EXCEPT ![w].pc = "check", ![w].iter = @ + 1]
    /\ UNCHANGED <<storeVars, last, storeOps, permissionRequests, lastResponse, accepted, now, ticks, env, webVars>>

\* handleApprovalPrompt up to `const startTime = Date.now()`
ApprovalNotify(w, toolName, net) ==
    /\ waiter[w].pc = "idle"
    /\ LET wr == [waiter[w] EXCEPT !.tool = "approval_prompt", !.toolName = toolName,
                                   !.input = "input-0"]
       IN \/ /\ net = "fail"
             /\ waiter' = [waiter EXCEPT ![w] = ApprovalCatch([wr EXCEPT !.notifyStatus = 500], "notify")]
             /\ UNCHANGED <<permissionRequests, nextUuid>>
          \/ /\ net = "ok"
             /\ PermissionNotifyStatus(toolName) = 400
             /\ waiter' = [waiter EXCEPT ![w] =
                    IF ResponseOk(400)
                    THEN [wr EXCEPT !.notifyStatus = 400, !.startTime = now, !.iter = 1,
                                    !.pc = "check"]
                    ELSE ApprovalCatch([wr EXCEPT !.notifyStatus = 400], "notify")]
             /\ UNCHANGED <<permissionRequests, nextUuid>>
          \/ /\ net = "ok"
             /\ PermissionNotifyStatus(toolName) = 200
             /\ nextUuid <= MaxRequests
             /\ permissionRequests' = addPermissionRequest(permissionRequests, nextUuid,
                                          toolName, wr.input, OrUnknown(env))
             /\ nextUuid' = nextUuid + 1
             /\ waiter' = [waiter EXCEPT ![w] =
                    [wr EXCEPT !.notifyStatus = 200, !.requestId = nextUuid,
                               !.startTime = now, !.iter = 1, !.pc = "check"]]
    /\ UNCHANGED <<questionRequests, emitted, last, storeOps, lastResponse, accepted, now, ticks, env, webVars>>

\* top of the while loop: the timeout check
ApprovalCheck(w) ==
    /\ waiter[w].pc = "check" /\ waiter[w].tool = "approval_prompt"
    /\ waiter' = [waiter EXCEPT ![w] =
          IF TimedOut(now, waiter[w].startTime)
          THEN Return(waiter[w], "deny", "timeout", UndefinedAnswers, Undefined,
                      "Permission request timed out")
          ELSE [waiter[w] EXCEPT !.pc = "pollA"]]
    /\ UNCHANGED <<storeVars, last, storeOps, permissionRequests, lastResponse, accepted, now, ticks, env, webVars>>

\* GET /api/permissions?streamingId=${CUI_STREAMING_ID}&status=pending
ApprovalPollPending(w, net) ==
    /\ waiter[w].pc = "pollA" /\ waiter[w].tool = "approval_prompt"
    /\ LET permissions == getPermissionRequests(permissionRequests, TemplateString(env), "pending")
           wr == [waiter[w] EXCEPT !.queries = @ + 1]
           rd == [wr EXCEPT !.pendingIter =
                     IF Find(permissions, wr.requestId) /= <<>> THEN wr.iter ELSE @]
       IN waiter' = [waiter EXCEPT ![w] =
            IF net = "fail" THEN ApprovalCatch(wr, "pollA")
            ELSE IF StillPending(permissions, wr.requestId)
                 THEN [rd EXCEPT !.pc = "sleep", !.sleepFrom = now]
                 ELSE [rd EXCEPT !.pc = "pollB"]]
    /\ UNCHANGED <<storeVars, last, storeOps, permissionRequests, lastResponse, accepted, now, ticks, env, webVars>>

\* GET /api/permissions?streamingId=${CUI_STREAMING_ID}
ApprovalPollAll(w, net) ==
    /\ waiter[w].pc = "pollB" /\ waiter[w].tool = "approval_prompt"
    /\ LET allPermissions == getPermissionRequests(permissionRequests, TemplateString(env), Undefined)
           found == Find(allPermissions, waiter[w].requestId)
           wr == [waiter[w] EXCEPT !.queries = @ + 1]
           rd == [wr EXCEPT !.read = found, !.readIter = wr.iter]
       IN waiter' = [waiter EXCEPT ![w] =
            IF net = "fail" THEN ApprovalCatch(wr, "pollB")
            ELSE IF ApprovalResolved(found) = "allow"
                 THEN Return(rd, "allow", "decision", UndefinedAnswers,
                             IF Truthy(found[1].modifiedInput)
                             THEN found[1].modifiedInput ELSE wr.input,
                             Undefined)
            ELSE IF ApprovalResolved(found) = "deny"
                 THEN Return(rd, "deny", "decision", UndefinedAnswers, Undefined,
                             IF Truthy(found[1].denyReason)
                             THEN found[1].denyReason ELSE "The user doesnt want to proceed")
            ELSE [rd EXCEPT !.pc = "sleep", !.sleepFrom = now]]
    /\ UNCHANGED <<storeVars, last, storeOps, permissionRequests, lastResponse, accepted, now, ticks, env, webVars>>

\* await new Promise(resolve => setTimeout(resolve, POLL_INTERVAL))
ApprovalSleep(w) ==
    /\ waiter[w].pc = "sleep" /\ waiter[w].tool = "approval_prompt"
    /\ now - waiter[w].sleepFrom >= POLL_INTERVAL
    /\ waiter' = [waiter EXCEPT ![w].pc = "check", ![w].iter = @ + 1]
    /\ UNCHANGED <<storeVars, last, storeOps, permissionRequests, lastResponse, accepted, now, ticks, env, webVars>>

\* ------------------------------------------------ the human side and cleanup
\* history: where each tool call stood when its request was decided, and whether
\* that was before its deadline
NoteDecided(id, tool) ==
    [w \in Waiters |->
        IF waiter[w].requestId = id /\ waiter[w].tool = tool /\ waiter[w].decPc = "none"
        THEN [waiter[w] EXCEPT !.decIter = waiter[w].iter, !.decPc = waiter[w].pc,
                               !.decInTime = (now < waiter[w].startTime + TIMEOUT)]
        ELSE waiter[w]]

\* ids a client can name: those handed out so far, and 0 for one never handed out
KnownIds == 0..(nextUuid - 1)

NoResponse == [route |-> "none", id |-> 0, status |-> 0, body |-> UndefinedAnswers]
Response(route, id, status, body) ==
    [route |-> route, id |-> id, status |-> status, body |-> body]

\* POST /api/questions/notify from any client
QuestionNotify(questions, streamingId) ==
    /\ IF NotifyStatus(questions) = 200
       THEN /\ nextUuid <= MaxRequests
            /\ questionRequests' = addQuestionRequest(questionRequests, nextUuid,
                                       questions.items, streamingId, now)
            /\ emitted' = EmitRequest(emitted, questionRequests', nextUuid)
            /\ nextUuid' = nextUuid + 1
            /\ lastResponse' = Response("notify", nextUuid, 200, questions)
       ELSE /\ lastResponse' = Response("notify", 0, 400, questions)
            /\ UNCHANGED storeVars
    /\ UNCHANGED <<last, storeOps, permissionRequests, accepted, now, ticks, env, webVars, waiter>>

\* POST /api/questions/:requestId/answer
QuestionAnswer(id, answers) ==
    /\ LET status == AnswerStatus(questionRequests, id, answers)
       IN /\ lastResponse' = Response("answer", id, status, answers)
          /\ IF status = 200
             THEN /\ questionRequests' = updateQuestionAnswer(questionRequests, id, answers)
                  /\ emitted' = EmitAnswered(emitted, questionRequests', id)
                  /\ accepted' = Append(accepted, [id |-> id, answers |-> answers])
                  /\ waiter' = NoteDecided(id, "ask_user_question")
             ELSE UNCHANGED <<questionRequests, emitted, accepted, waiter>>
    /\ UNCHANGED <<nextUuid, last, storeOps, permissionRequests, now, ticks, env, webVars>>

\* the permission decision route: only a pending request is decided
PermissionDecide(id, d) ==
    /\ Find(getPermissionRequests(permissionRequests, Undefined, "pending"), id) /= <<>>
    /\ permissionRequests' = decidePermission(permissionRequests, id, d)
    /\ waiter' = NoteDecided(id, "approval_prompt")
    /\ UNCHANGED <<storeVars, last, storeOps, lastResponse, accepted, now, ticks, env, webVars>>

\* req.query of GET /api/questions
ListQuery(streamingId, status, n) ==
    [tag |-> "query", streamingId |-> streamingId, status |-> status, n |-> n]

\* the `questions` GET /api/questions answers with
ListResponse(reqs, streamingId, status) == getQuestionRequests(reqs, streamingId, status)

\* GET /api/questions?streamingId=...&status=...
QuestionList(streamingId, status) ==
    /\ lastResponse' = Response("list", 0, 200,
           ListQuery(streamingId, status,
                     Len(ListResponse(questionRequests, streamingId, status))))
    /\ UNCHANGED <<storeVars, last, storeOps, permissionRequests, accepted, now, ticks,
                   env, waiter, webVars>>

\* questionTracker.clear()
QuestionClear ==
    /\ questionRequests /= <<>>
    /\ questionRequests' = <<>>
    /\ UNCHANGED <<emitted, nextUuid, last, storeOps, systemVars>>

\* end of an agent run: the trackers drop the run's records
QuestionCleanup(streamingId) ==
    /\ removeQuestionsByStreamingIdReturn(questionRequests, streamingId) > 0
    /\ questionRequests' = removeQuestionsByStreamingId(questionRequests, streamingId)
    /\ UNCHANGED <<emitted, nextUuid, last, storeOps, systemVars>>

PermissionCleanup(streamingId) ==
    /\ permissionRequests' = removePermissionsByStreamingId(permissionRequests, streamingId)
    /\ permissionRequests' /= permissionRequests
    /\ UNCHANGED <<storeVars, last, storeOps, lastResponse, accepted, now, ticks, env, webVars, waiter>>

TickSteps == {POLL_INTERVAL, TIMEOUT}

Tick(d) ==
    /\ ticks < MaxTicks
    /\ now' = now + d
    /\ ticks' = ticks + 1
    /\ UNCHANGED <<storeVars, last, storeOps, permissionRequests, lastResponse, accepted, env, webVars, waiter>>

\* ------------------------------------------------------- the QuestionDialog
\* A JavaScript string is the list of its pieces; a label is a single piece.
Str(piece) == <<piece>>
EmptyString == <<>>

\* the request the dialog shows: one single-select and one multi-select question
DialogQuestions ==
    << [header |-> "Framework", options |-> <<"React", "Vue">>, multiSelect |-> FALSE],
       [header |-> "Features", options |-> <<"Auth", "Billing">>, multiSelect |-> TRUE] >>
Headers == {DialogQuestions[i].header : i \in DOMAIN DialogQuestions}
QuestionOf(header) == CHOOSE q \in {DialogQuestions[i] : i \in DOMAIN DialogQuestions} : q.header = header

\* what the user types into the custom input, and String.prototype.trim()
CustomTexts == {"", "  ", " Svelte "}
trim(text) == IF text = " Svelte " THEN Str("Svelte") ELSE EmptyString

\* a value of the answers state: absent, a string, or a string[]
Absent == [kind |-> "undefined", val |-> <<>>]
StringAnswer(str) == [kind |-> "string", val |-> str]
ArrayAnswer(arr) == [kind |-> "array", val |-> arr]

\* Array.prototype.join(separator)
RECURSIVE join(_, _)
join(arr, separator) ==
    IF Len(arr) = 0 THEN EmptyString
    ELSE IF Len(arr) = 1 THEN arr[1]
    ELSE arr[1] \o Str(separator) \o join(Tail(arr), separator)

\* `Array.isArray(selectedAnswer) ? selectedAnswer : []`
currentSelected(answer) == IF answer.kind = "array" THEN answer.val ELSE <<>>

includes(arr, label) == \E i \in DOMAIN arr : arr[i] = label

NotSubmitted == [h \in Headers |-> Absent]
InitDialog ==
    [answers |-> [h \in Headers |-> Absent],
     showCustomInput |-> [h \in Headers |-> FALSE],
     submitted |-> NotSubmitted]

\* QuestionSection.handleOptionClick(label), '__other__' being the "Other" row
handleOptionClick(header, label) ==
    LET question == QuestionOf(header)
        selected == currentSelected(dialog.answers[header])
    IN /\ dialog' =
            IF label = "__other__"
            THEN [dialog EXCEPT !.showCustomInput[header] = TRUE]
            ELSE IF question.multiSelect
            THEN [dialog EXCEPT !.answers[header] =
                     IF includes(selected, Str(label))
                     THEN ArrayAnswer(SelectSeq(selected, LAMBDA l : l /= Str(label)))
                     ELSE ArrayAnswer(Append(selected, Str(label)))]
            ELSE [dialog EXCEPT !.showCustomInput[header] = FALSE,
                                !.answers[header] = StringAnswer(Str(label))]
       /\ UNCHANGED <<storeVars, last, storeOps, permissionRequests, lastResponse, accepted,
                      now, ticks, env, waiter, client>>

\* QuestionSection.handleCustomSubmit with customAnswer = text
handleCustomSubmit(header, text) ==
    LET question == QuestionOf(header)
        selected == currentSelected(dialog.answers[header])
    IN /\ dialog.showCustomInput[header]
       /\ question.multiSelect => Len(selected) < MaxSelected
       /\ dialog' =
            IF trim(text) = EmptyString THEN dialog
            ELSE [dialog EXCEPT !.showCustomInput[header] = FALSE,
                                !.answers[header] =
                                   IF question.multiSelect
                                   THEN ArrayAnswer(Append(selected, trim(text)))
                                   ELSE StringAnswer(trim(text))]
       /\ UNCHANGED <<storeVars, last, storeOps, permissionRequests, lastResponse, accepted,
                      now, ticks, env, waiter, client>>

\* `questionRequest.questions.every(q => ...)`: the Submit button is enabled
allQuestionsAnswered ==
    \A i \in DOMAIN DialogQuestions :
       LET answer == dialog.answers[DialogQuestions[i].header]
       IN IF answer.kind = "array" THEN Len(answer.val) > 0
          ELSE answer.kind = "string" /\ answer.val /= EmptyString

formattedAnswerDefaultJoin(answer) ==
    IF answer.kind = "array" THEN StringAnswer(join(answer.val, ",")) ELSE answer

\* one entry of formattedAnswers
formattedAnswer(answer) ==
    IF answer.kind = "array" THEN StringAnswer(join(answer.val, ", ")) ELSE answer

\* QuestionDialog.handleSubmit: what onSubmit receives
handleSubmit ==
    /\ allQuestionsAnswered
    /\ dialog' = [dialog EXCEPT !.submitted =
                      [h \in Headers |-> formattedAnswer(dialog.answers[h])]]
    /\ UNCHANGED <<storeVars, last, storeOps, permissionRequests, lastResponse, accepted,
                   now, ticks, env, waiter, client>>

\* ------------------------------------------------- the ConversationsProvider
SessionIds == 1..MaxConversations
StreamKeys == {"run-1", "run-2"}
SummaryStreamingIds == {"run-1", Undefined}
SummaryStatuses == {"ongoing", "completed"}

\* a stream's live status, as StreamStatusContext keeps it; NoLiveStatus: none kept
NoLiveStatus == [connectionState |-> "none", currentStatus |-> "none"]
LiveStatuses ==
    [connectionState : {"connected", "disconnected"}, currentStatus : {"Running", "Completed"}]

\* a ConversationSummary as the server returns it
Summaries ==
    [sessionId : SessionIds, streamingId : SummaryStreamingIds, status : SummaryStatuses,
     liveStatus : {NoLiveStatus}]

\* data.conversations of a response to api.getConversations({limit, offset: 0})
Responses(limit) ==
    UNION {{r \in [1..n -> Summaries] : \A i, j \in 1..n : i < j => r[i].sessionId < r[j].sessionId}
           : n \in 0..limit}

\* getStreamStatus(streamingId)
getStreamStatus(statuses, streamingId) ==
    IF streamingId \in DOMAIN statuses THEN statuses[streamingId] ELSE NoLiveStatus

mergeLiveStatusEither(conv, statuses) ==
    IF Truthy(conv.streamingId) /\ conv.status = "ongoing"
          /\ getStreamStatus(statuses, conv.streamingId) /= NoLiveStatus
    THEN LET liveStatus == getStreamStatus(statuses, conv.streamingId)
         IN [conv EXCEPT !.liveStatus = liveStatus,
                         !.status = IF liveStatus.connectionState = "disconnected"
                                       \/ liveStatus.currentStatus = "Completed"
                                    THEN "completed" ELSE conv.status]
    ELSE conv

\* the body of `prevConversations.map(conv => ...)` in the live status effect
mergeLiveStatus(conv, statuses) ==
    IF Truthy(conv.streamingId) /\ conv.status = "ongoing"
    THEN LET liveStatus == getStreamStatus(statuses, conv.streamingId)
         IN IF liveStatus /= NoLiveStatus
            THEN [conv EXCEPT !.liveStatus = liveStatus,
                              !.status = IF liveStatus.connectionState = "disconnected"
                                            /\ liveStatus.currentStatus = "Completed"
                                         THEN "completed" ELSE conv.status]
            ELSE conv
    ELSE conv

NoLoad == 0
InitClient ==
    [conversations |-> <<>>, loading |-> FALSE, loadingMore |-> FALSE, hasMore |-> TRUE,
     error |-> "null", loadLimit |-> NoLoad, subscribed |-> {},
     streamStatuses |-> [k \in StreamKeys |-> NoLiveStatus],
     \* history, not read by the provider: the summaries as the server returned
     \* them, and the length of the page the latest fetch returned
     loaded |-> <<>>, fetched |-> 0]

\* loadConversations(limit) up to the await
loadConversationsStart(limit) ==
    /\ client.loadLimit = NoLoad
    /\ client' = [client EXCEPT !.loading = TRUE, !.error = "null", !.loadLimit = limit]
    /\ UNCHANGED <<storeVars, last, storeOps, permissionRequests, lastResponse, accepted,
                   now, ticks, env, waiter, dialog>>

\* loadConversations after the await: the response arrived
loadConversationsResolve(data) ==
    /\ client.loadLimit /= NoLoad
    /\ Len(data) <= client.loadLimit
    /\ client' = [client EXCEPT
          !.conversations = data,
          !.loaded = data,
          !.fetched = Len(data),
          !.hasMore = (Len(data) = client.loadLimit),
          !.subscribed = @ \cup {data[i].streamingId : i \in
                            {j \in DOMAIN data : data[j].status = "ongoing"
                                                    /\ Truthy(data[j].streamingId)}},
          !.loading = FALSE,
          !.loadLimit = NoLoad]
    /\ UNCHANGED <<storeVars, last, storeOps, permissionRequests, lastResponse, accepted,
                   now, ticks, env, waiter, dialog>>

\* loadConversations after the await: the request failed
loadConversationsReject ==
    /\ client.loadLimit /= NoLoad
    /\ client' = [client EXCEPT !.error = "Failed to load conversations",
                                !.loading = FALSE, !.loadLimit = NoLoad]
    /\ UNCHANGED <<storeVars, last, storeOps, permissionRequests, lastResponse, accepted,
                   now, ticks, env, waiter, dialog>>

LOAD_MORE_LIMIT == MaxPage

\* data.conversations of a response to api.getConversations({limit: LOAD_MORE_LIMIT,
\* offset}): what the server holds may have changed since the list was loaded, so a
\* page may overlap the list, and a summary may have completed in between
PageSummaries == {c \in Summaries : c.streamingId = Undefined /\ c.status = "completed"}
Pages == UNION {[1..n -> PageSummaries] : n \in 0..LOAD_MORE_LIMIT}

\* `[...prev, ...data.conversations.filter(conv => !existingIds.has(conv.sessionId))]`
appendNewConversations(prev, data) ==
    LET existingIds == {prev[i].sessionId : i \in DOMAIN prev}
    IN prev \o SelectSeq(data, LAMBDA conv : conv.sessionId \notin existingIds)

loadMoreHasMoreNonEmpty(data) == Len(data) > 0

\* what loadMoreConversations passes to setHasMore
loadMoreHasMore(data) ==
    IF Len(data) = 0 THEN FALSE ELSE Len(data) = LOAD_MORE_LIMIT

\* loadMoreConversations() up to the await; `if (loadingMore || !hasMore) return`
loadMoreConversationsStart ==
    /\ ~(client.loadingMore \/ ~client.hasMore)
    /\ client' = [client EXCEPT !.loadingMore = TRUE, !.error = "null"]
    /\ UNCHANGED <<storeVars, last, storeOps, permissionRequests, lastResponse, accepted,
                   now, ticks, env, waiter, dialog>>

\* loadMoreConversations after the await: the response arrived
loadMoreConversationsResolve(data) ==
    /\ client.loadingMore
    /\ client' = [client EXCEPT
          !.conversations = IF Len(data) = 0 THEN @ ELSE appendNewConversations(@, data),
          !.loaded = IF Len(data) = 0 THEN @ ELSE appendNewConversations(@, data),
          !.fetched = Len(data),
          !.hasMore = loadMoreHasMore(data),
          !.subscribed = @ \cup {data[i].streamingId : i \in
                            {j \in DOMAIN data : data[j].status = "ongoing"
                                                    /\ Truthy(data[j].streamingId)}},
          !.loadingMore = FALSE]
    /\ UNCHANGED <<storeVars, last, storeOps, permissionRequests, lastResponse, accepted,
                   now, ticks, env, waiter, dialog>>

\* loadMoreConversations after the await: the request failed
loadMoreConversationsReject ==
    /\ client.loadingMore
    /\ client' = [client EXCEPT !.error = "Failed to load more conversations",
                                !.loadingMore = FALSE]
    /\ UNCHANGED <<storeVars, last, storeOps, permissionRequests, lastResponse, accepted,
                   now, ticks, env, waiter, dialog>>

\* the stream status of one stream changes, and the live status effect runs
streamStatusChanged(streamingId, liveStatus) ==
    /\ client.streamStatuses[streamingId] /= liveStatus
    /\ LET statuses == [client.streamStatuses EXCEPT ![streamingId] = liveStatus]
       IN client' = [client EXCEPT
             !.streamStatuses = statuses,
             !.conversations = [i \in DOMAIN client.conversations |->
                                   mergeLiveStatus(client.conversations[i], statuses)]]
    /\ UNCHANGED <<storeVars, last, storeOps, permissionRequests, lastResponse, accepted,
                   now, ticks, env, waiter, dialog>>

\* --------------------------------------------------------- specifications
EnvValues == {"run-1", Undefined}
ToolNames == {"edit_file", ""}
CleanupIds == StreamingIds \cup {"unknown"}

Init ==
    /\ questionRequests = <<>>
    /\ emitted = <<>>
    /\ nextUuid = 1
    /\ last = NoCall
    /\ storeOps = 0
    /\ permissionRequests = <<>>
    /\ lastResponse = NoResponse
    /\ accepted = <<>>
    /\ now = 0
    /\ ticks = 0
    /\ env \in EnvValues
    /\ waiter = [w \in Waiters |-> IdleWaiter]
    /\ dialog = InitDialog
    /\ client = InitClient

\* the tool call Spec follows; the others' requests reach the routes directly
Solo == {1}
ValidQuestions == QuestionsBody("array", <<Item>>)
WaiterQuestionBodies ==
    {QuestionsBody("undefined", <<>>), QuestionsBody("array", <<>>), ValidQuestions}
ObjectBodies == {AnswersBody("object", o) : o \in AnswerObjects}

Next ==
    \/ \E w \in Solo, q \in WaiterQuestionBodies, net \in Net : AskNotify(w, q, net)
    \/ \E w \in Solo : AskCheck(w)
    \/ \E w \in Solo, net \in Net : AskPollPending(w, net)
    \/ \E w \in Solo, net \in Net : AskPollAll(w, net)
    \/ \E w \in Solo : AskSleep(w)
    \/ \E w \in Solo, t \in ToolNames, net \in Net : ApprovalNotify(w, t, net)
    \/ \E w \in Solo : ApprovalCheck(w)
    \/ \E w \in Solo, net \in Net : ApprovalPollPending(w, net)
    \/ \E w \in Solo, net \in Net : ApprovalPollAll(w, net)
    \/ \E w \in Solo : ApprovalSleep(w)
    \/ \E id \in KnownIds, a \in ObjectBodies : QuestionAnswer(id, a)
    \/ \E id \in KnownIds, d \in PermissionDecisions : PermissionDecide(id, d)
    \/ \E s \in CleanupIds : QuestionCleanup(s)
    \/ \E s \in CleanupIds : PermissionCleanup(s)
    \/ \E d \in TickSteps : Tick(d)

Spec == Init /\ [][Next]_vars

\* ---- the tool call under a clock that keeps advancing
\* the clock stops mattering once the call is past its deadline and awake
LiveClockCap == 3
LiveTickSteps == {TIMEOUT \div 2, TIMEOUT}

LiveTick(d) ==
    /\ now < LiveClockCap * TIMEOUT
    /\ \E w \in Solo :
          /\ InLoop(w)
          /\ \/ now - waiter[w].startTime <= TIMEOUT
             \/ waiter[w].pc = "sleep" /\ now - waiter[w].sleepFrom < POLL_INTERVAL
    /\ now' = now + d
    /\ UNCHANGED <<storeVars, last, storeOps, permissionRequests, lastResponse, accepted,
                   ticks, env, webVars, waiter>>

AskStep(w) ==
    \/ \E q \in WaiterQuestionBodies, net \in Net : AskNotify(w, q, net)
    \/ AskCheck(w)
    \/ \E net \in Net : AskPollPending(w, net)
    \/ \E net \in Net : AskPollAll(w, net)
    \/ AskSleep(w)

ApprovalStep(w) ==
    \/ \E t \in ToolNames, net \in Net : ApprovalNotify(w, t, net)
    \/ ApprovalCheck(w)
    \/ \E net \in Net : ApprovalPollPending(w, net)
    \/ \E net \in Net : ApprovalPollAll(w, net)
    \/ ApprovalSleep(w)

LiveNext ==
    \/ \E w \in Solo : AskStep(w)
    \/ \E w \in Solo : ApprovalStep(w)
    \/ \E id \in KnownIds, a \in ObjectBodies : QuestionAnswer(id, a)
    \/ \E id \in KnownIds, d \in PermissionDecisions : PermissionDecide(id, d)
    \/ \E s \in CleanupIds : QuestionCleanup(s)
    \/ \E s \in CleanupIds : PermissionCleanup(s)
    \/ \E d \in LiveTickSteps : LiveTick(d)

\* the event loop runs every continuation that is ready, every fetch settles,
\* and the clock advances
LiveSpec ==
    /\ Init
    /\ [][LiveNext]_vars
    /\ \A w \in Solo : WF_vars(AskStep(w)) /\ WF_vars(ApprovalStep(w))
    /\ WF_vars(\E d \in LiveTickSteps : LiveTick(d))

\* ---- two tool calls of one MCP server process in flight together
PairTickSteps == {TIMEOUT}
\* the human answers each question once, the older one with React
PairAnswers(id) ==
    AnswersBody("object", << <<"Framework", IF id = 1 THEN "React" ELSE "Vue">> >>)

PairNext ==
    \/ \E w \in Waiters : AskNotify(w, ValidQuestions, "ok")
    \/ \E w \in Waiters : AskCheck(w)
    \/ \E w \in Waiters : AskPollPending(w, "ok")
    \/ \E w \in Waiters, net \in Net : AskPollAll(w, net)
    \/ \E w \in Waiters : AskSleep(w)
    \/ \E id \in KnownIds :
          /\ Find(AnswerLookup(questionRequests), id) /= <<>>
          /\ QuestionAnswer(id, PairAnswers(id))
    \/ \E d \in PairTickSteps : Tick(d)

\* the run's streamingId was handed to the MCP server process
PairInit == Init /\ env = "run-1"

PairSpec == PairInit /\ [][PairNext]_vars

\* ---- the routes, called by any client
RouteStreamingIds == {"run-1", Undefined}
StatusFilters == {"pending", "answered", Undefined}

\* the notify bodies tried: every malformed shape, and two well-formed ones
NotifyCalls ==
    {<<q, "run-1">> : q \in QuestionBodies \ {ValidQuestions}}
        \cup {<<ValidQuestions, Undefined>>}

GatewayNext ==
    \/ \E c \in NotifyCalls : QuestionNotify(c[1], c[2])
    \/ \E id \in KnownIds, a \in AnswerBodies \ {ArrayAnswers} : QuestionAnswer(id, a)
    \/ \E s \in CleanupIds : QuestionCleanup(s)

GatewaySpec == Init /\ [][GatewayNext]_vars

\* ---- the answer route, sent every shape of answers
AnswerNext ==
    \/ QuestionNotify(ValidQuestions, "run-1")
    \/ \E id \in KnownIds, a \in AnswerBodies : QuestionAnswer(id, a)
    \/ QuestionCleanup("run-1")

AnswerSpec == Init /\ [][AnswerNext]_vars

\* ---- the routes with the list route, and the store's cleanup and clear
ListStreamingIds == {"run-1", "unknown", "", Undefined}
ListStatuses == {"pending", "answered", "", Undefined}

\* the queries sent: the two of the poll loop, one by status alone, one with
\* both parameters empty
ListCalls ==
    {<<"run-1", "pending">>, <<"run-1", Undefined>>, <<Undefined, "answered">>, <<"", "">>}
ReactAnswers == AnswersBody("object", << <<"Framework", "React">> >>)

ListNext ==
    \/ \E s \in RouteStreamingIds : QuestionNotify(ValidQuestions, s)
    \/ \E id \in KnownIds : QuestionAnswer(id, ReactAnswers)
    \/ \E c \in ListCalls : QuestionList(c[1], c[2])
    \/ \E s \in CleanupIds : QuestionCleanup(s)
    \/ QuestionClear

ListSpec == Init /\ [][ListNext]_vars

\* ---- the QuestionTracker, called directly
StoreNext ==
    \/ \E q \in QuestionArrays, s \in RouteStreamingIds : TrackerAdd(q, s)
    \/ \E id \in KnownIds, a \in ObjectBodies : TrackerUpdate(id, a)
    \/ \E s \in RouteStreamingIds, f \in StatusFilters : TrackerList(s, f)
    \/ \E id \in KnownIds : TrackerGet(id)
    \/ \E s \in CleanupIds : TrackerRemove(s)
    \/ TrackerClear

StoreSpec == Init /\ [][StoreNext]_vars

\* ---- the QuestionDialog, clicked by the user
DialogLabels == {"React", "Vue", "Auth", "Billing", "__other__"}

DialogNext ==
    \/ \E h \in Headers, l \in DialogLabels :
          /\ l = "__other__" \/ includes(QuestionOf(h).options, l)
          /\ handleOptionClick(h, l)
    \/ \E h \in Headers, t \in CustomTexts : handleCustomSubmit(h, t)
    \/ handleSubmit

DialogSpec == Init /\ [][DialogNext]_vars

\* ---- the conversation list of the web client
ClientNext ==
    \/ loadConversationsStart(MaxConversations)
    \/ \E data \in Responses(MaxConversations) : loadConversationsResolve(data)
    \/ loadConversationsReject
    \/ \E k \in StreamKeys, l \in LiveStatuses : streamStatusChanged(k, l)

ClientSpec == Init /\ [][ClientNext]_vars

\* ---- the conversation list, loaded page by page
PageResponses ==
    {r \in UNION {[1..n -> {c \in Summaries : c.streamingId = Undefined}]
                     : n \in 0..MaxConversations} :
        \A i, j \in DOMAIN r : i < j => r[i].sessionId < r[j].sessionId}

PageNext ==
    \/ loadConversationsStart(MaxConversations)
    \/ \E data \in PageResponses : loadConversationsResolve(data)
    \/ loadConversationsReject
    \/ loadMoreConversationsStart
    \/ \E data \in Pages : loadMoreConversationsResolve(data)
    \/ loadMoreConversationsReject

PageSpec == Init /\ [][PageNext]_vars

\* ================================================================== claims
Held(id) == {k \in DOMAIN questionRequests : questionRequests[k].id = id}
AcceptedFor(id) == {i \in DOMAIN accepted : accepted[i].id = id}

\* C1: of the submissions POST /:requestId/answer receives for one request id, at
\* most one is answered 200, and the first well-formed one for a pending request is;
\* every other well-formed submission is answered 404 (never 500), and the record
\* keeps the answers of the accepted submission.
TheoremC1 ==
    /\ \A id \in 1..(nextUuid - 1) :
          /\ Cardinality(AcceptedFor(id)) <= 1
          /\ \A k \in Held(id) :
                /\ (questionRequests[k].status = "answered") <=> (AcceptedFor(id) /= {})
                /\ \A i \in AcceptedFor(id) : questionRequests[k].answers = accepted[i].answers
    /\ lastResponse.route = "answer" =>
          /\ lastResponse.body.tag = "object" => lastResponse.status \in {200, 404}
          /\ lastResponse.status = 200 =>
                /\ accepted /= <<>>
                /\ accepted[Len(accepted)] = [id |-> lastResponse.id, answers |-> lastResponse.body]
          /\ lastResponse.status = 404 =>
                \A k \in Held(lastResponse.id) : questionRequests[k].status /= "pending"

\* a second submission with other answers was refused and the first answers stayed
WitnessC1 ==
    /\ lastResponse.route = "answer" /\ lastResponse.status = 404
    /\ lastResponse.body.tag = "object"
    /\ \E k \in Held(lastResponse.id) :
          /\ questionRequests[k].status = "answered"
          /\ questionRequests[k].answers /= lastResponse.body

IsUpdateCall == last'.op = "updateQuestionAnswer" /\ storeOps' = storeOps + 1

\* C2: updateQuestionAnswer on a held record returns true and fixes the answers
\* the first time; called again on the same id it returns false and leaves the
\* store as it was.
CounterC2 ==
    [][(IsUpdateCall /\ Find(questionRequests, last'.id) /= <<>>) =>
          IF Find(questionRequests, last'.id)[1].status = "pending"
          THEN last'.ok /\ Find(questionRequests', last'.id)[1].status = "answered"
          ELSE ~last'.ok /\ questionRequests' = questionRequests]_vars

\* C3: a tool call returns "allow" only after reading the record of its own
\* request with status approved, and returns answers only after reading it with
\* status answered, the answers being those the record holds; a call that ends by
\* timeout or in the catch block returns deny or error, with no answers.
TheoremC3 ==
    \A w \in Waiters :
       LET wr == waiter[w] IN
       /\ wr.result.behavior = "allow" =>
             /\ wr.tool = "approval_prompt" /\ wr.result.via = "decision"
             /\ wr.read /= <<>>
             /\ wr.read[1].id = wr.requestId /\ wr.read[1].status = "approved"
       /\ wr.result.behavior = "answers" =>
             /\ wr.tool = "ask_user_question" /\ wr.result.via = "decision"
             /\ wr.read /= <<>>
             /\ wr.read[1].id = wr.requestId /\ wr.read[1].status = "answered"
             /\ wr.result.answers = wr.read[1].answers
             /\ \E i \in AcceptedFor(wr.requestId) : accepted[i].answers = wr.result.answers
       /\ (wr.pc = "done" /\ wr.result.via /= "decision") =>
             /\ wr.result.via \in {"timeout", "error"}
             /\ wr.result.behavior \in {"deny", "error"}
             /\ wr.result.answers = UndefinedAnswers
             /\ wr.result.updatedInput = Undefined

\* a permission was approved with a modified input and the call returned it
WitnessC3 ==
    \E w \in Waiters :
       /\ waiter[w].result.behavior = "allow"
       /\ waiter[w].result.updatedInput = "input-1"
       /\ waiter[w].read[1].status = "approved"

\* the request of w was decided after phase A of the running iteration found it pending
DecidedAfterPhaseA(w) ==
    /\ waiter[w].decPc /= "none"
    /\ waiter[w].pendingIter = waiter[w].decIter

ResolvedByDecision(w) == waiter[w].pc = "done" /\ waiter[w].result.via = "decision"

\* C4 as claimed: a request found pending by phase A of iteration N and decided
\* before the end of that iteration is resolved by phase B of iteration N.
CounterC4 ==
    \A w \in Waiters :
       (ResolvedByDecision(w) /\ DecidedAfterPhaseA(w)) => waiter[w].readIter = waiter[w].decIter

\* C4: a request found pending by phase A of iteration N and decided before the
\* end of that iteration is not queried again in iteration N; when the call
\* resolves by the decision, it is phase B of iteration N+1 that read it.
TheoremC4 ==
    \A w \in Waiters :
       /\ (DecidedAfterPhaseA(w) /\ waiter[w].iter = waiter[w].decIter) =>
             waiter[w].pc = "sleep"
       /\ (ResolvedByDecision(w) /\ DecidedAfterPhaseA(w)) =>
             /\ waiter[w].readIter = waiter[w].decIter + 1
             /\ waiter[w].iter = waiter[w].decIter + 1

WitnessC4 ==
    \E w \in Waiters :
       /\ ResolvedByDecision(w) /\ DecidedAfterPhaseA(w)
       /\ waiter[w].decPc = "sleep"
       /\ waiter[w].readIter = waiter[w].decIter + 1

Undecided(w) == waiter[w].decPc = "none"

\* C5: under a clock that keeps advancing, a tool call whose request is never
\* decided ends; if no query failed it ends by the timeout result; a timeout
\* result is returned only more than TIMEOUT after the wait started; and a call
\* that has ended issues no query.
TheoremC5 ==
    /\ \A w \in Solo : InLoop(w) ~> (waiter[w].pc = "done" \/ ~Undecided(w))
    /\ [](\A w \in Solo :
            /\ (waiter[w].pc = "done" /\ waiter[w].notifyStatus = 200
                   /\ Undecided(w) /\ waiter[w].failed = "none") =>
                  /\ waiter[w].result.via = "timeout"
                  /\ waiter[w].result.behavior \in {"deny", "error"}
            /\ waiter[w].result.via = "timeout" => now - waiter[w].startTime > TIMEOUT)
    /\ [][\A w \in Solo : waiter[w].pc = "done" =>
            /\ waiter'[w].pc = "done"
            /\ waiter'[w].queries = waiter[w].queries
            /\ waiter'[w].result = waiter[w].result]_vars

\* an undecided request timed out after the call had polled
WitnessC5 ==
    \E w \in Solo :
       /\ waiter[w].pc = "done" /\ waiter[w].result.via = "timeout"
       /\ Undecided(w) /\ waiter[w].queries > 0

\* C6: a call whose phase B answered without its request id has ended with an
\* error result in that iteration.
CounterC6 ==
    \A w \in Waiters :
       (waiter[w].readIter > 0 /\ waiter[w].read = <<>>) =>
          /\ waiter[w].pc = "done"
          /\ waiter[w].result.behavior \in {"deny", "error"}
          /\ waiter[w].iter = waiter[w].readIter

\* C7: the step in which a poll query fails ends the call with a deny/error
\* result, and a call that has ended issues no query and keeps its result.
TheoremC7 ==
    [][\A w \in Waiters :
          /\ (waiter[w].failed = "none" /\ waiter'[w].failed \in {"pollA", "pollB"}) =>
                /\ waiter'[w].pc = "done"
                /\ waiter'[w].result.via = "error"
                /\ waiter'[w].result.behavior \in {"deny", "error"}
                /\ waiter'[w].iter = waiter[w].iter
                /\ waiter'[w].queries = waiter[w].queries + 1
          /\ waiter[w].failed \in {"pollA", "pollB"} =>
                /\ waiter'[w].pc = "done"
                /\ waiter'[w].queries = waiter[w].queries
                /\ waiter'[w].result = waiter[w].result]_vars

\* a phase B query failed in the second iteration, and the world moved on after it
WitnessC7 ==
    \E w \in Waiters :
       /\ waiter[w].failed = "pollB" /\ waiter[w].pc = "done"
       /\ waiter[w].iter = 2 /\ waiter[w].queries = 3
       /\ now > waiter[w].sleepFrom + POLL_INTERVAL

\* C8: a tool call whose notify was rejected has ended with a deny/error result
\* without ever having queried.
TheoremC8 ==
    \A w \in Waiters :
       waiter[w].notifyStatus \in {400, 500} =>
          /\ waiter[w].pc = "done"
          /\ waiter[w].failed = "notify"
          /\ waiter[w].result.behavior \in {"deny", "error"}
          /\ waiter[w].queries = 0 /\ waiter[w].iter = 0

\* the gateway refused an empty question list, and time passed after the failure
WitnessC8 ==
    \E w \in Waiters :
       /\ waiter[w].notifyStatus = 400 /\ waiter[w].tool = "ask_user_question"
       /\ waiter[w].pc = "done" /\ now > 0


\* a questions body the notify route is said to reject
Malformed(body) ==
    \/ body.tag /= "array"
    \/ Len(body.items) = 0
    \/ \E i \in DOMAIN body.items : Len(body.items[i].options) = 0

IsNotifyCall ==
    /\ lastResponse'.route = "notify"
    /\ <<lastResponse, nextUuid>>' /= <<lastResponse, nextUuid>>

\* C9: POST /notify answers 400 and creates no record when the question list is
\* missing, not a list, empty, or holds an item without options; for every other
\* body it creates exactly one pending record and returns its id.
CounterC9 ==
    [][IsNotifyCall =>
          IF Malformed(lastResponse'.body)
          THEN lastResponse'.status = 400 /\ questionRequests' = questionRequests
          ELSE /\ lastResponse'.status = 200
               /\ Len(questionRequests') = Len(questionRequests) + 1
               /\ Find(questionRequests, lastResponse'.id) = <<>>
               /\ Len(Find(questionRequests', lastResponse'.id)) = 1
               /\ Find(questionRequests', lastResponse'.id)[1].status = "pending"]_vars

\* C10: a record that is not pending is not pending after any further call of
\* the QuestionTracker, for as long as it is held.
TheoremC10 ==
    [][\A i \in DOMAIN questionRequests :
          questionRequests[i].status /= "pending" =>
             \A j \in DOMAIN questionRequests' :
                questionRequests'[j].id = questionRequests[i].id =>
                   questionRequests'[j].status /= "pending"]_vars

\* an answered record was updated again, and a request was added after it
WitnessC10 ==
    /\ last.op \in {"updateQuestionAnswer", "addQuestionRequest"}
    /\ storeOps >= 3
    /\ \E i \in DOMAIN questionRequests :
          /\ questionRequests[i].status = "answered"
          /\ last.op = "updateQuestionAnswer" => last.id = questionRequests[i].id
          /\ last.op = "addQuestionRequest" => last.id > questionRequests[i].id

\* ids for which a question_answered event was emitted: updateQuestionAnswer
\* emits it exactly when it returns true
DecidedIds ==
    {emitted[i].request.id : i \in {j \in DOMAIN emitted : emitted[j].type = "question_answered"}}

\* C11: getQuestionRequests({status: 'pending'}) holds no record whose id
\* updateQuestionAnswer has returned true for, holds every held record it has not
\* returned true for, and holds held records only.
TheoremC11 ==
    LET pending == getQuestionRequests(questionRequests, Undefined, "pending")
    IN /\ \A k \in DOMAIN questionRequests :
             (Find(pending, questionRequests[k].id) /= <<>>)
                <=> (questionRequests[k].id \notin DecidedIds)
       /\ \A i \in DOMAIN pending : \E k \in DOMAIN questionRequests : questionRequests[k] = pending[i]

\* a decided and an undecided record are held, and the pending list returned one
WitnessC11 ==
    /\ last.op = "getQuestionRequests" /\ last.streamingId = Undefined /\ last.n = 1
    /\ \E k \in DOMAIN questionRequests : questionRequests[k].id \in DecidedIds
    /\ \E k \in DOMAIN questionRequests : questionRequests[k].id \notin DecidedIds

\* C12: getQuestionRequest(id) right after addQuestionRequest returned id gives
\* one pending record with the questions submitted, no answers, and the streamingId
\* given (when one is given); getQuestionRequest of an id not held gives none.
TheoremC12 ==
    [][/\ \A q \in QuestionArrays, s \in RouteStreamingIds :
             TrackerAdd(q, s) =>
                LET got == getQuestionRequest(questionRequests', last'.id)
                IN /\ Len(got) = 1
                   /\ got[1].status = "pending"
                   /\ got[1].questions = q
                   /\ got[1].answers = UndefinedAnswers
                   /\ Truthy(s) => got[1].streamingId = s
                   /\ Held(last'.id) = {}
       /\ \A id \in 0..MaxRequests :
             TrackerGet(id) => (last'.ok <=> Held(id) /= {})]_vars

\* the two calls made so far: addQuestionRequest, then getQuestionRequest of its id
WitnessC12 ==
    /\ storeOps = 2 /\ last.op = "getQuestionRequest" /\ last.ok
    /\ \E k \in Held(last.id) :
          questionRequests[k].status = "pending" /\ questionRequests[k].questions = <<Item>>

\* C13: updateQuestionAnswer of an id that is not held returns false and leaves
\* the records and the emitted events as they were.
TheoremC13 ==
    [][(IsUpdateCall /\ Held(last'.id) = {}) =>
          /\ ~last'.ok
          /\ questionRequests' = questionRequests
          /\ emitted' = emitted]_vars

\* the id was handed out and removed since, and another record is held
WitnessC13 ==
    /\ last.op = "updateQuestionAnswer" /\ ~last.ok
    /\ last.id > 0 /\ Held(last.id) = {}
    /\ questionRequests /= <<>>

IsRemoveCall == last'.op = "removeQuestionsByStreamingId" /\ storeOps' = storeOps + 1
Matching(c) == {j \in DOMAIN questionRequests : questionRequests[j].streamingId = c}

\* C14: removeQuestionsByStreamingId(c) leaves no record of c, keeps every other
\* record as it was, adds none, returns the number of records of c, and emits
\* nothing; called again with c right after, or when no record is of c, it returns
\* 0 and changes nothing.
TheoremC14 ==
    [][IsRemoveCall =>
          LET c == last'.streamingId
          IN /\ \A k \in DOMAIN questionRequests' :
                   /\ questionRequests'[k].streamingId /= c
                   /\ \E j \in DOMAIN questionRequests : questionRequests[j] = questionRequests'[k]
             /\ \A j \in DOMAIN questionRequests \ Matching(c) :
                   \E k \in DOMAIN questionRequests' : questionRequests'[k] = questionRequests[j]
             /\ last'.n = Cardinality(Matching(c))
             /\ Len(questionRequests') = Len(questionRequests) - last'.n
             /\ emitted' = emitted
             /\ last'.n = 0 => questionRequests' = questionRequests
             /\ (last.op = "removeQuestionsByStreamingId" /\ last.streamingId = c) =>
                   last'.n = 0]_vars

\* an answered record of the run was removed and the record of another run is held
WitnessC14 ==
    /\ last.op = "removeQuestionsByStreamingId" /\ last.n = 1
    /\ Len(questionRequests) = 1
    /\ \E id \in DecidedIds : Held(id) = {}

\* some record held before the step is not held after it
SomeRecordLeaves ==
    \E k \in DOMAIN questionRequests :
       \A j \in DOMAIN questionRequests' : questionRequests'[j].id /= questionRequests[k].id

IsCleanupStep == \E c \in CleanupIds : QuestionCleanup(c)

\* the list phase B of the poll loop asks for finds the record
ReadableByPhaseB(reqs, r) == Find(getQuestionRequests(reqs, r.streamingId, Undefined), r.id) = <<r>>

\* C15 as claimed: a step after which a held record is gone is a call of
\* removeQuestionsByStreamingId.
CounterC15 == [][SomeRecordLeaves => IsCleanupStep]_vars

\* C15: a step after which a held record is gone is a call of
\* removeQuestionsByStreamingId or of clear(); the notify, answer and list routes
\* remove nothing, and an answered record stays as it is, and in the list phase B
\* asks for, until one of the two removes it.
TheoremC15 ==
    [][/\ SomeRecordLeaves => (IsCleanupStep \/ QuestionClear)
       /\ \A k \in DOMAIN questionRequests :
             questionRequests[k].status = "answered" =>
                \/ ReadableByPhaseB(questionRequests', questionRequests[k])
                \/ /\ IsCleanupStep \/ QuestionClear
                   /\ Find(questionRequests', questionRequests[k].id) = <<>>]_vars

\* an answered record is held and was listed, after another record had been removed
WitnessC15 ==
    /\ lastResponse.route = "list" /\ lastResponse.body.n = 1
    /\ Len(questionRequests) = 1 /\ nextUuid = 3
    /\ questionRequests[1].status = "answered"

IsAddCall == last'.op = "addQuestionRequest" /\ storeOps' = storeOps + 1

\* C16: addQuestionRequest emits one question_request event carrying the record
\* it stored; updateQuestionAnswer returning true emits one question_answered
\* event carrying the record with status answered and the answers given;
\* returning false it emits nothing, and no other call emits.
TheoremC16 ==
    [][/\ IsAddCall =>
             /\ Len(Find(questionRequests', last'.id)) = 1
             /\ emitted' = Append(emitted, Event("question_request",
                                                 Find(questionRequests', last'.id)[1]))
       /\ \A id \in 0..MaxRequests, a \in ObjectBodies :
             TrackerUpdate(id, a) =>
                IF last'.ok
                THEN /\ Len(emitted') = Len(emitted) + 1
                     /\ SubSeq(emitted', 1, Len(emitted)) = emitted
                     /\ emitted'[Len(emitted')].type = "question_answered"
                     /\ emitted'[Len(emitted')].request.id = id
                     /\ emitted'[Len(emitted')].request.status = "answered"
                     /\ emitted'[Len(emitted')].request.answers = a
                     /\ Find(questionRequests', id) = <<emitted'[Len(emitted')].request>>
                ELSE emitted' = emitted
       /\ (~IsAddCall /\ ~IsUpdateCall) => emitted' = emitted]_vars

\* one request was added and answered, and a later decide returned false
WitnessC16 ==
    /\ Len(emitted) = 2
    /\ emitted[1].type = "question_request" /\ emitted[1].request.status = "pending"
    /\ emitted[2].type = "question_answered" /\ emitted[2].request.status = "answered"
    /\ last.op = "updateQuestionAnswer" /\ ~last.ok

\* the held records a filter asks for, a field counting when `supplied` holds of it
Filtered(reqs, streamingId, status, supplied(_)) ==
    SelectSeq(reqs, LAMBDA r : /\ supplied(streamingId) => r.streamingId = streamingId
                               /\ supplied(status) => r.status = status)

Defined(x) == x /= Undefined
NonEmpty(x) == x /= Undefined /\ x /= ""

\* C17 as claimed: for every filter, getQuestionRequests and GET /api/questions
\* return the held records that match every field that is defined.
CounterC17 ==
    \A c \in ListStreamingIds, f \in ListStatuses :
       ListResponse(questionRequests, c, f) = Filtered(questionRequests, c, f, Defined)

IsListCall == lastResponse'.route = "list" /\ lastResponse' /= lastResponse

\* C17: for every filter, getQuestionRequests and GET /api/questions return, in
\* insertion order, the held records that match every field that is defined and
\* not the empty string: one field alone, both together, or all records when
\* neither is; the route changes nothing.
TheoremC17 ==
    [][/\ \A c \in ListStreamingIds, f \in ListStatuses :
             ListResponse(questionRequests', c, f) = Filtered(questionRequests', c, f, NonEmpty)
       /\ IsListCall =>
             /\ lastResponse'.body.n =
                   Len(Filtered(questionRequests, lastResponse'.body.streamingId,
                                lastResponse'.body.status, NonEmpty))
             /\ questionRequests' = questionRequests]_vars

\* both fields given: one of the two held records matched
WitnessC17 ==
    /\ lastResponse.route = "list"
    /\ lastResponse.body.streamingId = "run-1" /\ lastResponse.body.status = "pending"
    /\ lastResponse.body.n = 1
    /\ Len(questionRequests) = 2

\* answers that are not a mapping from header to answer text
MalformedAnswers(body) == body.tag /= "object"

IsAnswerCall ==
    /\ lastResponse'.route = "answer"
    /\ lastResponse' /= lastResponse \/ questionRequests' /= questionRequests

\* C18: POST /:requestId/answer with answers that are missing or not a mapping
\* from header to text is answered 400 and changes no record, stores no answers
\* and emits no event, whether or not the id is held.
CounterC18 ==
    [][(IsAnswerCall /\ MalformedAnswers(lastResponse'.body)) =>
          /\ lastResponse'.status = 400
          /\ questionRequests' = questionRequests
          /\ emitted' = emitted
          /\ accepted' = accepted]_vars

\* str is the labels, in their order, with ", " between neighbours
JoinedByCommaSpace(str, labels) ==
    /\ Len(str) = 2 * Len(labels) - 1
    /\ \A i \in DOMAIN labels : Len(labels[i]) = 1 /\ str[2 * i - 1] = labels[i][1]
    /\ \A i \in 1..(Len(labels) - 1) : str[2 * i] = ", "

\* C19: what handleSubmit passes to onSubmit holds, for every header answered
\* with an array, the selected labels in selection order with ", " between them,
\* and for every header answered with a string, that string.
TheoremC19 ==
    [][dialog'.submitted /= dialog.submitted =>
          \A h \in Headers :
             LET answer == dialog.answers[h]
                 sent == dialog'.submitted[h]
             IN /\ answer.kind = "array" =>
                      /\ answer.val /= <<>>
                      /\ sent.kind = "string"
                      /\ JoinedByCommaSpace(sent.val, answer.val)
                /\ answer.kind = "string" => sent = answer
                /\ answer.kind /= "undefined"]_vars

\* two labels selected against the order of the options, and a custom single answer
WitnessC19 ==
    /\ dialog.submitted["Features"] = StringAnswer(<<"Billing", ", ", "Auth">>)
    /\ dialog.submitted["Framework"] = StringAnswer(<<"Svelte">>)

\* the summary is ongoing, has a streamingId, and a live status is kept for it
HasLiveStatus(conv, statuses) ==
    /\ conv.status = "ongoing"
    /\ conv.streamingId /= Undefined /\ conv.streamingId /= ""
    /\ conv.streamingId \in DOMAIN statuses
    /\ statuses[conv.streamingId] /= NoLiveStatus

\* C20: when the stream statuses change, a summary that is ongoing, has a
\* streamingId and has a live status gets that live status attached, and gets
\* status completed exactly when the live status is disconnected and Completed,
\* keeping its status otherwise; every other summary is left as it is.
TheoremC20 ==
    [][client'.streamStatuses /= client.streamStatuses =>
          /\ Len(client'.conversations) = Len(client.conversations)
          /\ \A i \in DOMAIN client.conversations :
                LET conv == client.conversations[i]
                    merged == client'.conversations[i]
                IN IF HasLiveStatus(conv, client'.streamStatuses)
                   THEN LET liveStatus == client'.streamStatuses[conv.streamingId]
                        IN /\ merged.liveStatus = liveStatus
                           /\ merged.sessionId = conv.sessionId
                           /\ merged.streamingId = conv.streamingId
                           /\ (merged.status = "completed") <=>
                                 (liveStatus.connectionState = "disconnected"
                                     /\ liveStatus.currentStatus = "Completed")
                           /\ merged.status /= "completed" => merged.status = conv.status
                   ELSE merged = conv]_vars

\* one summary was promoted; an ongoing one without streamingId stayed as loaded
WitnessC20 ==
    /\ \E i \in DOMAIN client.conversations :
          /\ client.conversations[i].status = "completed"
          /\ client.conversations[i].liveStatus =
                [connectionState |-> "disconnected", currentStatus |-> "Completed"]
    /\ \E i \in DOMAIN client.conversations :
          /\ client.conversations[i].status = "ongoing"
          /\ client.conversations[i].streamingId = Undefined
          /\ client.conversations[i].liveStatus = NoLiveStatus

\* the merged view as a function of the summaries loaded and the live statuses kept
MergedView(summaries, statuses) ==
    [i \in DOMAIN summaries |-> mergeLiveStatus(summaries[i], statuses)]

\* C21: the conversations shown are the summaries the server returned merged with
\* the live statuses now kept, whatever was merged before; and merging the same
\* live statuses again changes nothing.
CounterC21 ==
    /\ client.conversations = MergedView(client.loaded, client.streamStatuses)
    /\ MergedView(client.conversations, client.streamStatuses) = client.conversations

HasDuplicate(list) ==
    \E i, j \in DOMAIN list : i < j /\ list[i].sessionId = list[j].sessionId

\* C22: the conversation list never holds two summaries with the same sessionId,
\* whatever pages the load-more fetches return.
CounterC22 == ~HasDuplicate(client.conversations)

\* a call of loadConversations completes without an error
LoadCompletes ==
    /\ client.loadLimit /= NoLoad /\ client'.loadLimit = NoLoad
    /\ client'.error /= "Failed to load conversations"

\* a call of loadMoreConversations completes without an error
LoadMoreCompletes ==
    /\ client.loadingMore /\ ~client'.loadingMore
    /\ client'.error /= "Failed to load more conversations"

\* C23: a load or a load-more that completes leaves hasMore true exactly when the
\* page fetched is as long as the page size asked for; and while hasMore is false
\* and no load-more is under way, no load-more fetch starts and only a load
\* changes the list.
TheoremC23 ==
    [][/\ LoadCompletes => client'.hasMore = (client'.fetched = client.loadLimit)
       /\ LoadMoreCompletes => client'.hasMore = (client'.fetched = LOAD_MORE_LIMIT)
       /\ (~client.hasMore /\ ~client.loadingMore) =>
             /\ ~client'.loadingMore
             /\ client'.conversations /= client.conversations => LoadCompletes]_vars

\* a load-more appended a short page to the list, and hasMore went false
WitnessC23 ==
    /\ ~client.hasMore /\ ~client.loadingMore /\ client.loadLimit = NoLoad
    /\ client.fetched = 1 /\ client.error = "null"
    /\ Len(client.conversations) = 2
    /\ client.conversations[2].sessionId < client.conversations[1].sessionId

IsClearCall == last'.op = "clear" /\ storeOps' = storeOps + 1
IsReadCall ==
    /\ last'.op \in {"updateQuestionAnswer", "getQuestionRequests", "getQuestionRequest"}
    /\ storeOps' = storeOps + 1

\* C24: no two held records have the same id; addQuestionRequest returns an id
\* no held record has and adds one record; removeQuestionsByStreamingId takes away
\* as many records as it returns and clear all of them; updateQuestionAnswer,
\* getQuestionRequests and getQuestionRequest leave the number of records as it is.
TheoremC24 ==
    /\ [](\A i, j \in DOMAIN questionRequests :
             i /= j => questionRequests[i].id /= questionRequests[j].id)
    /\ [][/\ IsAddCall =>
                /\ Held(last'.id) = {}
                /\ Len(questionRequests') = Len(questionRequests) + 1
                /\ Len(Find(questionRequests', last'.id)) = 1
          /\ IsRemoveCall => Len(questionRequests') = Len(questionRequests) - last'.n
          /\ IsClearCall => Len(questionRequests') = 0
          /\ IsReadCall => Len(questionRequests') = Len(questionRequests)]_vars

\* two records were added and the cleanup of one run took one of them away
WitnessC24 ==
    /\ last.op = "removeQuestionsByStreamingId" /\ last.n = 1
    /\ nextUuid = 3 /\ Len(questionRequests) = 1

\* C26: updateQuestionAnswer returning true leaves the record's id, streamingId,
\* timestamp and questions and every other record as they were; and updating two
\* different ids gives the same store in either order.
TheoremC26 ==
    /\ [](\A id1, id2 \in 1..MaxRequests, a1, a2 \in ObjectBodies :
             id1 /= id2 =>
                updateQuestionAnswer(updateQuestionAnswer(questionRequests, id1, a1), id2, a2)
                   = updateQuestionAnswer(updateQuestionAnswer(questionRequests, id2, a2), id1, a1))
    /\ [][(IsUpdateCall /\ last'.ok) =>
             /\ DOMAIN questionRequests' = DOMAIN questionRequests
             /\ \A i \in DOMAIN questionRequests :
                   IF questionRequests[i].id = last'.id
                   THEN /\ questionRequests'[i].status = "answered"
                        /\ questionRequests'[i].id = questionRequests[i].id
                        /\ questionRequests'[i].streamingId = questionRequests[i].streamingId
                        /\ questionRequests'[i].timestamp = questionRequests[i].timestamp
                        /\ questionRequests'[i].questions = questionRequests[i].questions
                   ELSE questionRequests'[i] = questionRequests[i]]_vars

\* two records of one run, the second one answered and the first one still pending
WitnessC26 ==
    /\ last.op = "updateQuestionAnswer" /\ last.ok /\ last.id = 2
    /\ Len(questionRequests) = 2
    /\ questionRequests[1].streamingId = questionRequests[2].streamingId
    /\ questionRequests[1].status = "pending"
    /\ questionRequests[2].status = "answered"

\* the ids of a list of records, in the order of the list
IdsOf(list) == [i \in DOMAIN list |-> list[i].id]
\* uuidv4 is modelled by a counter, so creation order is the order of the ids
InCreationOrder(list) == \A i, j \in DOMAIN list : i < j => list[i].id < list[j].id

PhaseAList(w) ==
    IF waiter[w].tool = "ask_user_question"
    THEN getQuestionRequests(questionRequests, TemplateString(env), "pending")
    ELSE getPermissionRequests(permissionRequests, TemplateString(env), "pending")

\* C25 as claimed: the first query of a tool call is issued only after one
\* POLL_INTERVAL sleep.
CounterC25 ==
    [][\A w \in Waiters :
          (waiter[w].queries = 0 /\ waiter'[w].queries = 1) =>
             now - waiter[w].startTime >= POLL_INTERVAL]_vars

\* C25: an iteration of the poll loop is the timeout check, then the phase A
\* query, then the phase B query when phase A did not return the id, then the
\* POLL_INTERVAL sleep: the first query follows the first check with no sleep
\* before it, a check that fires ends the call without a query, and the sleep
\* leads to the check of the next iteration.
TheoremC25 ==
    [][\A w \in Waiters :
          LET wr == waiter[w]
              nx == waiter'[w]
          IN /\ (wr.pc = "check" /\ nx.pc /= "check") =>
                   /\ nx.queries = wr.queries /\ nx.iter = wr.iter
                   /\ IF now - wr.startTime > TIMEOUT
                      THEN nx.pc = "done" /\ nx.result.via = "timeout"
                      ELSE nx.pc = "pollA"
             /\ nx.queries /= wr.queries =>
                   /\ wr.pc \in {"pollA", "pollB"}
                   /\ nx.queries = wr.queries + 1 /\ nx.iter = wr.iter
             /\ (wr.queries = 0 /\ nx.queries = 1) => wr.pc = "pollA" /\ wr.iter = 1
             /\ (wr.pc = "pollA" /\ nx.pc /= "pollA") =>
                   /\ nx.queries = wr.queries + 1
                   /\ nx.pc \in {"sleep", "pollB", "done"}
                   /\ nx.pc = "sleep" => Find(PhaseAList(w), wr.requestId) /= <<>>
                   /\ nx.pc = "pollB" => Find(PhaseAList(w), wr.requestId) = <<>>
                   /\ nx.pc = "done" => nx.failed = "pollA"
             /\ (wr.pc = "pollB" /\ nx.pc /= "pollB") =>
                   /\ nx.queries = wr.queries + 1
                   /\ nx.pc \in {"sleep", "done"}
             /\ (wr.pc = "sleep" /\ nx.pc /= "sleep") =>
                   /\ nx.pc = "check" /\ nx.iter = wr.iter + 1
                   /\ nx.queries = wr.queries
                   /\ now - wr.sleepFrom >= POLL_INTERVAL]_vars

\* the first query was answered at the instant the wait started, and the call
\* is in the sleep of its first iteration
WitnessC25 ==
    \E w \in Waiters :
       /\ waiter[w].pc = "sleep" /\ waiter[w].iter = 1 /\ waiter[w].queries = 1
       /\ now = waiter[w].startTime

\* the record the notify of w created, while it is held
OwnRecord(w) ==
    IF waiter[w].tool = "ask_user_question"
    THEN Find(questionRequests, waiter[w].requestId)
    ELSE Find(permissionRequests, waiter[w].requestId)

\* C28: the streamingId a tool call's request is stored under is the one its
\* queries filter by, and while the request is pending the phase A list holds it.
CounterC28 ==
    \A w \in Waiters :
       (InLoop(w) /\ waiter[w].notifyStatus = 200 /\ OwnRecord(w) /= <<>>) =>
          /\ OwnRecord(w)[1].streamingId = TemplateString(env)
          /\ OwnRecord(w)[1].status = "pending" =>
                Find(PhaseAList(w), waiter[w].requestId) /= <<>>

\* C29: a tool call whose request was decided no later than TIMEOUT after the
\* wait started, whose record is held and none of whose queries failed, has not
\* ended otherwise than by that decision.
CounterC29 ==
    \A w \in Waiters :
       (/\ waiter[w].pc = "done" /\ waiter[w].notifyStatus = 200
        /\ waiter[w].decPc \notin {"none", "done"}
        /\ waiter[w].decInTime
        /\ waiter[w].failed = "none"
        /\ OwnRecord(w) /= <<>>)
          => waiter[w].result.via = "decision"

\* the decision the record of w's own request holds
OwnDecision(w) ==
    IF OwnRecord(w) = <<>> THEN "none"
    ELSE IF OwnRecord(w)[1].status = "approved" THEN "allow"
    ELSE IF OwnRecord(w)[1].status = "denied" THEN "deny"
    ELSE IF OwnRecord(w)[1].status = "answered" THEN "answers"
    ELSE "none"

\* C30: with several tool calls in flight under one streamingId, a call that ended
\* by a decision read the record of its own request and returns what that record
\* holds; a call whose request is still pending has either not ended or ended by
\* timeout or error; and a decision on another request leaves the call where it is.
TheoremC30 ==
    /\ [](\A w \in Waiters :
            /\ ResolvedByDecision(w) =>
                  /\ waiter[w].read /= <<>>
                  /\ waiter[w].read[1].id = waiter[w].requestId
                  /\ waiter[w].decPc /= "none"
                  /\ waiter[w].result.behavior = OwnDecision(w)
                  /\ waiter[w].tool = "ask_user_question" =>
                        waiter[w].result.answers = OwnRecord(w)[1].answers
            /\ (waiter[w].notifyStatus = 200 /\ OwnDecision(w) = "none") =>
                  \/ InLoop(w)
                  \/ waiter[w].pc = "done" /\ waiter[w].result.via \in {"timeout", "error"})
    /\ [][\A w \in Waiters :
             (waiter[w].decPc = "none" /\ waiter'[w].decPc = "none"
                 /\ <<questionRequests, permissionRequests>>'
                       /= <<questionRequests, permissionRequests>>
                 /\ nextUuid' = nextUuid) =>
                waiter'[w] = waiter[w]]_vars

\* two questions of one run: the first call ended with its answers while the
\* second, whose request is still pending, polled again after that decision
WitnessC30 ==
    /\ env = "run-1"
    /\ ResolvedByDecision(1) /\ waiter[1].tool = "ask_user_question"
    /\ waiter[2].tool = "ask_user_question" /\ waiter[2].notifyStatus = 200
    /\ waiter[2].pc = "sleep" /\ waiter[2].iter >= 2
    /\ waiter[2].decPc = "none"
    /\ OwnRecord(2) /= <<>> /\ OwnRecord(2)[1].streamingId = OwnRecord(1)[1].streamingId

====
